---- MODULE Spec2Model ----
(***************************************************************************)
(* Model of scraper.py: the page fetcher (get_html), the pagination        *)
(* discoverer (get_page_number_list, get_max_page_number), the listing     *)
(* extractor (get_car_list, get_car_attribute), the CSV sink               *)
(* (save_list_to_csv) and the orchestrator main().                         *)
(*                                                                         *)
(* Text is a sequence of one-character strings, so that strip(), split(),  *)
(* isdigit() and int() are computed rather than assumed.  A lookup that    *)
(* found nothing (BeautifulSoup's find() returning None) is the value None;*)
(* an element that was found is a record carrying its text or children.    *)
(***************************************************************************)
EXTENDS Integers, Sequences, FiniteSets, TLC

VARIABLES pc, car_data, page_number_list, max_page_number, i,
          car_data_by_webpage, car_data_html, car_n, car_attributes,
          exit_code, log, http, sink_calls, csvfile, arg, ret

vars == <<pc, car_data, page_number_list, max_page_number, i,
          car_data_by_webpage, car_data_html, car_n, car_attributes,
          exit_code, log, http, sink_calls, csvfile, arg, ret>>

----------------------------------------------------------------------------
(* Bounds of the explored inputs *)

MaxItems == 2

MaxNav == 2

MaxListings == 2

MaxSpans == 4

----------------------------------------------------------------------------
(* Values *)

None == [none |-> TRUE]

Elem(t) == [text |-> t]

SeqsUpTo(S, n) == UNION {[1..k -> S] : k \in 0..n}

Whitespace == {" "}

Digits == {"0", "1", "2", "3", "4", "5", "6", "7", "8", "9"}

DigitVal == [c \in Digits |->
               CASE c = "0" -> 0 [] c = "1" -> 1 [] c = "2" -> 2 [] c = "3" -> 3
                 [] c = "4" -> 4 [] c = "5" -> 5 [] c = "6" -> 6 [] c = "7" -> 7
                 [] c = "8" -> 8 [] c = "9" -> 9]

NoneStr == <<"N", "o", "n", "e">>

----------------------------------------------------------------------------
(* String helpers used by the extractor and the discoverer *)

RECURSIVE LStrip(_)
LStrip(s) == IF s = <<>> THEN s
             ELSE IF Head(s) \in Whitespace THEN LStrip(Tail(s)) ELSE s

RECURSIVE RStrip(_)
RStrip(s) == IF s = <<>> THEN s
             ELSE IF s[Len(s)] \in Whitespace THEN RStrip(SubSeq(s, 1, Len(s) - 1))
             ELSE s

\* element.get_text(strip=True) of an element holding one text node
get_text_strip(e) == RStrip(LStrip(e.text))

\* str.split(): the maximal runs of non-whitespace characters, in order
RECURSIVE split(_, _)
split(s, word) ==
    IF s = <<>> THEN (IF word = <<>> THEN <<>> ELSE <<word>>)
    ELSE IF Head(s) \in Whitespace
         THEN (IF word = <<>> THEN <<>> ELSE <<word>>) \o split(Tail(s), <<>>)
         ELSE split(Tail(s), Append(word, Head(s)))

\* ' '.join(words)
RECURSIVE join(_)
join(words) == IF words = <<>> THEN <<>>
               ELSE IF Len(words) = 1 THEN words[1]
               ELSE words[1] \o <<" ">> \o join(Tail(words))

\* str.isdigit() on the modelled alphabet: non-empty and every character a digit
isdigit(s) == s # <<>> /\ \A k \in 1..Len(s) : s[k] \in Digits

\* int(str) of a digit string
RECURSIVE int(_)
int(s) == IF s = <<>> THEN 0
          ELSE 10 * int(SubSeq(s, 1, Len(s) - 1)) + DigitVal[s[Len(s)]]

\* max(list) of a non-empty list
RECURSIVE max(_)
max(l) == IF Len(l) = 1 THEN l[1]
          ELSE LET m == max(Tail(l)) IN IF l[1] >= m THEN l[1] ELSE m

----------------------------------------------------------------------------
(* Page Fetcher *)

\* What requests.get + raise_for_status can produce for one request
StatusError == [kind |-> "status_error"]

TransportError == [kind |-> "transport_error"]

PageResponse(p) == [kind |-> "page", page |-> p]

\* The page_number argument of get_html: absent (None) or one index
Untargeted == <<>>

Targeted(n) == <<n>>

get_html_none(resp) ==
    IF resp.kind = "page" THEN [kind |-> "return", value |-> resp.page]
    ELSE [kind |-> "return", value |-> None]

\* get_html: a page is parsed and returned; HTTPError is caught and ends the
\* process with sys.exit(1); any other requests exception is not caught here
\* and propagates to the caller.  It never returns None.
get_html(resp) ==
    IF resp.kind = "page" THEN [kind |-> "return", value |-> resp.page]
    ELSE IF resp.kind = "status_error" THEN [kind |-> "exit", log |-> <<"HTTPError">>]
    ELSE [kind |-> "raise", log |-> <<>>]

----------------------------------------------------------------------------
(* Pagination Discoverer *)

\* page_numbers of get_page_number_list, folded over the li items in order
RECURSIVE page_numbers_of(_)
page_numbers_of(items) ==
    IF items = <<>> THEN <<>>
    ELSE LET button == Head(items).button
         IN  (IF button # None /\ isdigit(button.text)
              THEN <<int(button.text)>> ELSE <<>>) \o page_numbers_of(Tail(items))

get_page_number_list(car_html) == page_numbers_of(car_html.items)

get_max_page_number_first(l) == IF l # <<>> THEN l[1] ELSE 1

get_max_page_number(l) == IF l # <<>> THEN max(l) ELSE 1

----------------------------------------------------------------------------
(* Listing Extractor *)

get_car_list_reversed(car_webpage) ==
    [k \in 1..Len(car_webpage.cars) |-> car_webpage.cars[Len(car_webpage.cars) + 1 - k]]

get_car_list(car_webpage) == car_webpage.cars

other_fields_swapped(spans) ==
    << <<"car_mileage", IF Len(spans) > 0 THEN get_text_strip(spans[1]) ELSE NoneStr>>,
       <<"car_transmission", IF Len(spans) > 2 THEN get_text_strip(spans[3]) ELSE NoneStr>>,
       <<"car_location", IF Len(spans) > 1 THEN get_text_strip(spans[2]) ELSE NoneStr>> >>

\* The three entries written inside "if car_mileage:"
other_fields(spans) ==
    << <<"car_mileage", IF Len(spans) > 0 THEN get_text_strip(spans[1]) ELSE NoneStr>>,
       <<"car_transmission", IF Len(spans) > 1 THEN get_text_strip(spans[2]) ELSE NoneStr>>,
       <<"car_location", IF Len(spans) > 2 THEN get_text_strip(spans[3]) ELSE NoneStr>> >>

get_car_attribute_lenient(item) ==
    [kind |-> "return",
     value |-> (IF item.title # None
                THEN << <<"car_name", join(split(get_text_strip(item.title), <<>>))>> >>
                ELSE <<>>)
               \o (IF item.other # None THEN other_fields(item.other.spans) ELSE <<>>)
               \o (IF item.price # None
                   THEN << <<"car_price", get_text_strip(item.price)>> >> ELSE <<>>)
               \o (IF item.monthly # None
                   THEN << <<"car_monthly_instalment", get_text_strip(item.monthly)>> >>
                   ELSE <<>>)]

\* A dict is the sequence of its <<key, value>> pairs in insertion order.
\* find() returning None makes .get_text raise, which the except clause
\* turns into sys.exit(1).
get_car_attribute(item) ==
    IF item.title = None \/ item.price = None \/ item.monthly = None
    THEN [kind |-> "exit"]
    ELSE [kind |-> "return",
          value |-> << <<"car_name", join(split(get_text_strip(item.title), <<>>))>> >>
                    \o (IF item.other # None THEN other_fields(item.other.spans) ELSE <<>>)
                    \o << <<"car_price", get_text_strip(item.price)>>,
                          <<"car_monthly_instalment", get_text_strip(item.monthly)>> >>]

----------------------------------------------------------------------------
(* Persistence Sink *)

keys(d) == [k \in 1..Len(d) |-> d[k][1]]

KeySet(d) == {d[k][1] : k \in 1..Len(d)}

\* dict.get(key, '')
dict_get(d, key) ==
    IF key \in KeySet(d)
    THEN d[CHOOSE k \in 1..Len(d) : d[k][1] = key][2]
    ELSE <<>>

\* The rows DictWriter writes for rows[n..], stopping at the first row that
\* has a key outside fieldnames (ValueError)
RECURSIVE write_rows(_, _)
write_rows(fieldnames, rows) ==
    IF rows = <<>> THEN [raised |-> FALSE, rows |-> <<>>]
    ELSE IF ~(KeySet(Head(rows)) \subseteq {fieldnames[k] : k \in 1..Len(fieldnames)})
         THEN [raised |-> TRUE, rows |-> <<>>]
         ELSE LET rest == write_rows(fieldnames, Tail(rows))
              IN  [raised |-> rest.raised,
                   rows |-> <<[k \in 1..Len(fieldnames) |-> dict_get(Head(rows), fieldnames[k])]>>
                            \o rest.rows]

\* save_list_to_csv: list_of_car[0] raises IndexError on an empty list, before
\* the file is opened; otherwise header row, then one row per record.
save_list_to_csv(list_of_car) ==
    IF list_of_car = <<>> THEN [raised |-> TRUE, file |-> None]
    ELSE LET fieldnames == keys(list_of_car[1])
             body == write_rows(fieldnames, list_of_car)
         IN  [raised |-> body.raised,
              file |-> [header |-> fieldnames, rows |-> body.rows]]

----------------------------------------------------------------------------
(* Inputs *)

Title1 == <<"M", " ", " ", "X">>

Title2 == <<" ", "M">>

Span1 == <<"9", "k">>

Span2 == <<" ", "A", " ">>

Span3 == <<"K", "L">>

Price1 == <<"R", "1">>

Monthly1 == <<"R", "2">>

Listing(t, o, p, m) == [title |-> t, other |-> o, price |-> p, monthly |-> m]

\* Listing blocks given to get_car_attribute on its own
Listings ==
    {Listing(t, o, p, m) :
        t \in {None, Elem(Title1), Elem(Title2)},
        o \in {None} \cup {[spans |-> s] : s \in SeqsUpTo({Elem(Span1), Elem(Span2)}, MaxSpans)},
        p \in {None, Elem(Price1)},
        m \in {None, Elem(Monthly1)}}

FullOther == [spans |-> <<Elem(Span1), Elem(Span2), Elem(Span3)>>]

\* Listing blocks served by the site in a whole run
SiteListings ==
    {Listing(Elem(Title1), FullOther, Elem(Price1), Elem(Monthly1)),
     Listing(Elem(Title2), None, Elem(Price1), Elem(Monthly1)),
     Listing(None, FullOther, Elem(Price1), Elem(Monthly1)),
     Listing(Elem(Title1), FullOther, None, Elem(Monthly1)),
     Listing(Elem(Title1), FullOther, Elem(Price1), None)}

Li(b) == [button |-> b]

\* Button texts of pagination items given to the discoverer on its own
ButtonTexts ==
    {<<>>, <<"0">>, <<"1">>, <<"2">>, <<"3">>, <<"5">>, <<"1", "0">>, <<"0", "3">>,
     <<".", ".", ".">>, <<" ", "2">>, <<"2", "a">>}

PaginationItems == {Li(None)} \cup {Li(Elem(t)) : t \in ButtonTexts}

\* Pagination items served by the site in a whole run
SiteItems == {Li(None), Li(Elem(<<"0">>)), Li(Elem(<<"1">>)), Li(Elem(<<"2">>)),
              Li(Elem(<<".", ".", ".">>))}

Page(items, cars) == [items |-> items, cars |-> cars]

\* Pages the untargeted URL can serve
InitialPages ==
    {Page(its, cars) : its \in SeqsUpTo(SiteItems, MaxNav),
                       cars \in SeqsUpTo({Listing(Elem(Title2), None, Elem(Price1), Elem(Monthly1))}, 1)}

\* Pages the ?pageNo= URL can serve (their pagination is never read)
NumberedPages == {Page(<<>>, cars) : cars \in SeqsUpTo(SiteListings, MaxListings)}

Responses(pages) == {StatusError, TransportError} \cup {PageResponse(p) : p \in pages}

----------------------------------------------------------------------------
(* main() *)

Init ==
    /\ pc = "start"
    /\ car_data = None
    /\ page_number_list = <<>>
    /\ max_page_number = 0
    /\ i = 0
    /\ car_data_by_webpage = None
    /\ car_data_html = <<>>
    /\ car_n = 0
    /\ car_attributes = <<>>
    /\ exit_code = None
    /\ log = <<>>
    /\ http = <<>>
    /\ sink_calls = <<>>
    /\ csvfile = None
    /\ arg = None
    /\ ret = None

\* sys.exit(1) inside main(): SystemExit is not an Exception, so the
\* "except Exception" of main() does not catch it
SysExit(entries) ==
    /\ pc' = "exited"
    /\ exit_code' = 1
    /\ log' = log \o entries

\* An exception reaching "except Exception as e" of main(): logged, main()
\* returns, the interpreter ends with status 0
TopLevelCatch(entries) ==
    /\ pc' = "caught"
    /\ exit_code' = 0
    /\ log' = log \o entries \o <<"TopLevel">>

\* Normal return of main()
Return(entries) ==
    /\ pc' = "done"
    /\ exit_code' = 0
    /\ log' = log \o entries

NextIndex_skip(n) == n + 2

NextIndex(n) == n + 1

\* Lines 161-168: timestamp, filename, empty list, car_data = get_html()
FetchInitial ==
    /\ pc = "start"
    /\ \E resp \in Responses(InitialPages) :
         LET r == get_html(resp) IN
         /\ http' = Append(http, [page_number |-> Untargeted, response |-> resp])
         /\ IF r.kind = "exit"
            THEN SysExit(r.log) /\ UNCHANGED car_data
            ELSE IF r.kind = "raise"
            THEN TopLevelCatch(r.log) /\ UNCHANGED car_data
            ELSE IF r.value = None
            THEN Return(<<"FailedInitial">>) /\ car_data' = r.value
            ELSE /\ car_data' = r.value
                 /\ pc' = "discover"
                 /\ log' = Append(log, "Opening")
                 /\ UNCHANGED exit_code
    /\ UNCHANGED <<page_number_list, max_page_number, i, car_data_by_webpage,
                   car_data_html, car_n, car_attributes, sink_calls, csvfile, arg, ret>>

\* Lines 170-172: discovery, then the loop starts at 1
Discover ==
    /\ pc = "discover"
    /\ page_number_list' = get_page_number_list(car_data)
    /\ max_page_number' = get_max_page_number(page_number_list')
    /\ log' = Append(log, "MaxPage")
    /\ i' = 1
    /\ pc' = "loop"
    /\ UNCHANGED <<car_data, car_data_by_webpage, car_data_html, car_n, car_attributes,
                   exit_code, http, sink_calls, csvfile, arg, ret>>

\* Lines 173-178: one iteration's fetch
FetchPage ==
    /\ pc = "loop"
    /\ i <= max_page_number
    /\ \E resp \in Responses(NumberedPages) :
         LET r == get_html(resp) IN
         /\ http' = Append(http, [page_number |-> Targeted(i), response |-> resp])
         /\ IF r.kind = "exit"
            THEN SysExit(r.log) /\ UNCHANGED <<car_data_by_webpage, car_data_html, car_n, i>>
            ELSE IF r.kind = "raise"
            THEN TopLevelCatch(r.log) /\ UNCHANGED <<car_data_by_webpage, car_data_html, car_n, i>>
            ELSE IF r.value = None
            THEN /\ car_data_by_webpage' = r.value
                 /\ log' = Append(log, "FailedPage")
                 /\ i' = NextIndex(i)
                 /\ UNCHANGED <<pc, exit_code, car_data_html, car_n>>
            ELSE /\ car_data_by_webpage' = r.value
                 /\ car_data_html' = get_car_list(r.value)
                 /\ car_n' = 1
                 /\ pc' = "extract"
                 /\ log' = Append(log, "Opening")
                 /\ UNCHANGED <<exit_code, i>>
    /\ UNCHANGED <<car_data, page_number_list, max_page_number, car_attributes,
                   sink_calls, csvfile, arg, ret>>

\* Lines 179-180: one iteration of "for car in car_data_html"
ExtractCar ==
    /\ pc = "extract"
    /\ car_n <= Len(car_data_html)
    /\ LET r == get_car_attribute(car_data_html[car_n]) IN
         IF r.kind = "exit"
         THEN SysExit(<<"AttrError">>) /\ UNCHANGED <<car_attributes, car_n>>
         ELSE /\ car_attributes' = Append(car_attributes, r.value)
              /\ car_n' = car_n + 1
              /\ log' = Append(log, "Appended")
              /\ UNCHANGED <<pc, exit_code>>
    /\ UNCHANGED <<car_data, page_number_list, max_page_number, i, car_data_by_webpage,
                   car_data_html, http, sink_calls, csvfile, arg, ret>>

\* Lines 181-182: the page is finished (the 5 s sleep changes no state)
PageDone ==
    /\ pc = "extract"
    /\ car_n > Len(car_data_html)
    /\ log' = Append(log, "Completed")
    /\ i' = NextIndex(i)
    /\ pc' = "loop"
    /\ UNCHANGED <<car_data, page_number_list, max_page_number, car_data_by_webpage,
                   car_data_html, car_n, car_attributes, exit_code, http, sink_calls,
                   csvfile, arg, ret>>

HasData_always(list) == TRUE

\* "if car_attributes:"
HasData(list) == list # <<>>

\* Lines 184-187: after the loop
Persist ==
    /\ pc = "loop"
    /\ i > max_page_number
    /\ IF HasData(car_attributes)
       THEN LET s == save_list_to_csv(car_attributes) IN
            /\ sink_calls' = Append(sink_calls, car_attributes)
            /\ csvfile' = s.file
            /\ IF s.raised THEN TopLevelCatch(<<>>) ELSE Return(<<"Saved">>)
       ELSE /\ Return(<<"NoData">>)
            /\ UNCHANGED <<sink_calls, csvfile>>
    /\ UNCHANGED <<car_data, page_number_list, max_page_number, i, car_data_by_webpage,
                   car_data_html, car_n, car_attributes, http, arg, ret>>

Next == FetchInitial \/ Discover \/ FetchPage \/ ExtractCar \/ PageDone \/ Persist

Spec == Init /\ [][Next]_vars

----------------------------------------------------------------------------
(* get_car_attribute on its own, over the wider set of listing blocks *)

InitAttr ==
    /\ pc = "call"
    /\ arg \in Listings
    /\ ret = None
    /\ car_data = None /\ page_number_list = <<>> /\ max_page_number = 0 /\ i = 0
    /\ car_data_by_webpage = None /\ car_data_html = <<>> /\ car_n = 0
    /\ car_attributes = <<>> /\ exit_code = None /\ log = <<>> /\ http = <<>>
    /\ sink_calls = <<>> /\ csvfile = None

CallGetCarAttribute ==
    /\ pc = "call"
    /\ ret' = get_car_attribute(arg)
    /\ pc' = "returned"
    /\ UNCHANGED <<car_data, page_number_list, max_page_number, i, car_data_by_webpage,
                   car_data_html, car_n, car_attributes, exit_code, log, http,
                   sink_calls, csvfile, arg>>

SpecAttr == InitAttr /\ [][CallGetCarAttribute]_vars

----------------------------------------------------------------------------
(* Discovery on its own, over the wider set of pagination controls *)

InitDisc ==
    /\ pc = "call"
    /\ arg \in {Page(its, <<>>) : its \in SeqsUpTo(PaginationItems, MaxItems)}
    /\ ret = None
    /\ car_data = None /\ page_number_list = <<>> /\ max_page_number = 0 /\ i = 0
    /\ car_data_by_webpage = None /\ car_data_html = <<>> /\ car_n = 0
    /\ car_attributes = <<>> /\ exit_code = None /\ log = <<>> /\ http = <<>>
    /\ sink_calls = <<>> /\ csvfile = None

CallDiscover ==
    /\ pc = "call"
    /\ ret' = [kind |-> "return",
               value |-> get_max_page_number(get_page_number_list(arg))]
    /\ pc' = "returned"
    /\ UNCHANGED <<car_data, page_number_list, max_page_number, i, car_data_by_webpage,
                   car_data_html, car_n, car_attributes, exit_code, log, http,
                   sink_calls, csvfile, arg>>

SpecDisc == InitDisc /\ [][CallDiscover]_vars

----------------------------------------------------------------------------
(* Observations over the request history *)

LogSet == {log[k] : k \in 1..Len(log)}

FetchFailed(k) == http[k].response.kind # "page"

\* The cars of the k-th numbered page that was requested
CarsOfRequest(k) == http[k + 1].response.page.cars

\* Records expected from pages n, n+1, ..., last: one per listing block, page
\* by page and in document order within a page
RECURSIVE RecordsFrom(_, _)
RecordsFrom(n, last) ==
    IF n > last THEN <<>>
    ELSE [k \in 1..Len(CarsOfRequest(n)) |-> get_car_attribute(CarsOfRequest(n)[k]).value]
         \o RecordsFrom(n + 1, last)

RECURSIVE ListingCount(_, _)
ListingCount(n, last) ==
    IF n > last THEN 0 ELSE Len(CarsOfRequest(n)) + ListingCount(n + 1, last)

LacksRequired(item) == item.title = None \/ item.price = None \/ item.monthly = None

HasBadListing(cars) == \E j \in 1..Len(cars) : LacksRequired(cars[j])

FirstBad(cars) == CHOOSE j \in 1..Len(cars) :
                     LacksRequired(cars[j]) /\ \A h \in 1..(j - 1) : ~LacksRequired(cars[h])

----------------------------------------------------------------------------
(* Claims *)

\* C1: save_list_to_csv is never invoked with an empty car_attributes, and a
\* run whose loop ended with zero records logs "No car data collected" and
\* returns without having written a file.
C1_SinkNeverOnEmpty ==
    /\ \A k \in 1..Len(sink_calls) : sink_calls[k] # <<>>
    /\ csvfile # None => sink_calls # <<>>
    /\ (pc = "done" /\ car_attributes = <<>>) =>
          /\ log[Len(log)] = "NoData"
          /\ sink_calls = <<>>
          /\ csvfile = None

C1_Witness ==
    /\ pc = "done"
    /\ car_attributes = <<>>
    /\ Len(http) = 3
    /\ "NoData" \in LogSet

\* C2 (as claimed): every failed fetch, HTTP status or transport error alike,
\* ends the process through sys.exit(1) and never reaches the top-level
\* "except Exception" handler of main().
C2_EveryFetchFailureExitsWithFailure ==
    \A k \in 1..Len(http) :
        FetchFailed(k) =>
            /\ pc = "exited"
            /\ exit_code = 1
            /\ "TopLevel" \notin LogSet
            /\ k = Len(http)
            /\ sink_calls = <<>>

\* C3: a listing block without title, price or monthly-instalment element
\* ends the run at that listing with sys.exit(1): no later listing or page is
\* handled and the sink is never invoked, whatever was accumulated before;
\* every appended record has car_name and car_price.
C3_MissingRequiredAborts ==
    /\ \A k \in 1..Len(car_attributes) :
          {"car_name", "car_price"} \subseteq KeySet(car_attributes[k])
    /\ \A k \in 2..Len(http) :
          (~FetchFailed(k) /\ HasBadListing(http[k].response.page.cars)) =>
              LET j == FirstBad(http[k].response.page.cars) IN
              /\ k = Len(http)
              /\ sink_calls = <<>>
              /\ csvfile = None
              /\ pc \in {"extract", "exited"}
              /\ car_n <= j
              /\ Len(car_attributes) <= ListingCount(1, k - 2) + (j - 1)
              /\ pc = "exited" => /\ exit_code = 1
                                  /\ car_n = j
                                  /\ log[Len(log)] = "AttrError"

C3_Witness ==
    /\ pc = "exited"
    /\ Len(http) = 3
    /\ ~FetchFailed(3)
    /\ car_n = 2
    /\ LacksRequired(car_data_html[car_n])
    /\ Len(car_attributes) = 3

\* C4: when every fetch and extraction succeeded, the list handed to the sink
\* is one record per listing block of pages 1..max_page_number, page by page
\* and in document order; the untargeted page's listings are not in it.
C4_SinkGetsEveryListingInOrder ==
    sink_calls # <<>> =>
        /\ Len(http) = max_page_number + 1
        /\ \A k \in 1..Len(http) : ~FetchFailed(k)
        /\ \A k \in 1..max_page_number : http[k + 1].page_number = Targeted(k)
        /\ sink_calls[1] = RecordsFrom(1, max_page_number)
        /\ Len(sink_calls[1]) = ListingCount(1, max_page_number)

C4_Witness ==
    /\ sink_calls # <<>>
    /\ max_page_number = 2
    /\ car_data.cars # <<>>
    /\ Len(CarsOfRequest(1)) = 2
    /\ CarsOfRequest(1)[1] # CarsOfRequest(1)[2]
    /\ Len(sink_calls[1]) = 3

\* C5 (as claimed): a listing block with title, price and monthly instalment
\* but without the "other details" container gives a record whose
\* car_mileage, car_transmission and car_location are present and "None".
C5_NoContainerGivesSentinels ==
    (pc = "returned" /\ ~LacksRequired(arg) /\ arg.other = None) =>
        /\ ret.kind = "return"
        /\ \A key \in {"car_mileage", "car_transmission", "car_location"} :
              key \in KeySet(ret.value) /\ dict_get(ret.value, key) = NoneStr

\* The integer a button text stands for, -1 when the text is not purely numeric
NumericValue(t) ==
    CASE t = <<"0">> -> 0 [] t = <<"1">> -> 1 [] t = <<"2">> -> 2 [] t = <<"3">> -> 3
      [] t = <<"5">> -> 5 [] t = <<"1", "0">> -> 10 [] t = <<"0", "3">> -> 3
      [] OTHER -> -1

NumericButtons(items) ==
    {NumericValue(items[k].button.text) :
        k \in {h \in 1..Len(items) : items[h].button # None}} \ {-1}

\* C6: discovery returns the largest integer among the numeric button texts,
\* ignoring items without a button or with non-numeric text, and 1 when
\* there is no numeric button.
C6_DiscoveryIsMaxOfNumericButtons ==
    pc = "returned" =>
        LET S == NumericButtons(arg.items) IN
        ret.value = IF S = {} THEN 1 ELSE CHOOSE m \in S : \A x \in S : x <= m

C6_Witness ==
    /\ pc = "returned"
    /\ Len(arg.items) = 2
    /\ arg.items[1].button = Elem(<<"3">>)
    /\ arg.items[2].button = Elem(<<"1", "0">>)
    /\ ret.value = 10

\* C7 (as claimed): the discovered max_page_number is at least 1, so a run
\* that gets through its loop has fetched page 1.
C7_MaxPageAtLeastOne ==
    pc \in {"loop", "extract", "done"} =>
        /\ max_page_number >= 1
        /\ pc = "done" => \E k \in 1..Len(http) : http[k].page_number = Targeted(1)

TextOf(span) == IF span = Elem(Span2) THEN <<"A">> ELSE span.text

\* C9: with the "other details" container present and k sub-elements,
\* car_mileage, car_transmission and car_location are the texts of the 1st,
\* 2nd and 3rd sub-element where they exist and "None" from position k on;
\* sub-elements after the 3rd leave no trace.
C9_OtherDetailsByPosition ==
    (pc = "returned" /\ ~LacksRequired(arg) /\ arg.other # None) =>
        LET spans == arg.other.spans
            expected(p) == IF p <= Len(spans) THEN TextOf(spans[p]) ELSE NoneStr
        IN  /\ ret.kind = "return"
            /\ keys(ret.value) = <<"car_name", "car_mileage", "car_transmission",
                                   "car_location", "car_price", "car_monthly_instalment">>
            /\ ret.value[2][2] = expected(1)
            /\ ret.value[3][2] = expected(2)
            /\ ret.value[4][2] = expected(3)

C9_Witness ==
    /\ pc = "returned"
    /\ ret.kind = "return"
    /\ arg.other # None
    /\ Len(arg.other.spans) = 2
    /\ arg.other.spans[1] # arg.other.spans[2]
    /\ dict_get(ret.value, "car_location") = NoneStr

C10_Order ==
    /\ Len(http) >= 1 => http[1].page_number = Untargeted
    /\ \A k \in 2..Len(http) : http[k].page_number = Targeted(k - 1)
    /\ Len(http) >= 2 => ("MaxPage" \in LogSet /\ Len(http) - 1 <= max_page_number)
    /\ Len(sink_calls) <= 1
    /\ sink_calls # <<>> => (Len(http) = max_page_number + 1 /\ pc \in {"done", "caught"})
    /\ (pc = "done" /\ car_attributes # <<>>) => Len(sink_calls) = 1

C10_Step ==
    /\ pc # "discover" => max_page_number' = max_page_number
    /\ pc' = "discover" => pc = "start"
    /\ sink_calls # <<>> => (http' = http /\ car_attributes' = car_attributes
                              /\ sink_calls' = sink_calls)
    /\ http' # http => (Len(http') = Len(http) + 1 /\ SubSeq(http', 1, Len(http)) = http)

\* C10: one untargeted fetch, then discovery (max_page_number set once), then
\* fetches of 1, 2, ... in ascending order, each at most once and none beyond
\* max_page_number, then at most one sink invocation, which comes only after
\* index max_page_number was handled, is followed by no fetch or extraction,
\* and happens exactly once when the run returns with records.
C10_FetchDiscoverLoopPersist == []C10_Order /\ [][C10_Step]_vars

C10_Witness ==
    /\ Len(sink_calls) = 1
    /\ max_page_number = 2
    /\ Len(http) = 3
    /\ pc = "done"

====
